---- MODULE Spec2Model ----
(***************************************************************************)
(* A model of the AaltoMEG hardware interface (src/aalto_meg.py): the      *)
(* trigger output on the parallel port and the three blocking wait         *)
(* operations on the digital input lines of the response devices.          *)
(*                                                                         *)
(* Time is counted in ticks of 100 ms, so the 200 ms quiet window of the   *)
(* grip wait is SilentWindow = 2 ticks.  The input lines are a bit mask,   *)
(* as in the code: line l is bit 2^l of `lines` and of every sample.       *)
(*                                                                         *)
(* The DAQ device is the environment.  A blocking read returns when a      *)
(* change that the task's change detection is configured for happens on    *)
(* one of its lines; the sample it returns is the state of the lines when  *)
(* the sample is latched, which is the state after the flank, or the old   *)
(* state again when the line bounced back before the latch (a pulse        *)
(* shorter than the latch delay).  Changes the task is not configured for  *)
(* alter the lines silently.                                               *)
(*                                                                         *)
(* The second part models the loop of src/magic_trick.py that puts the     *)
(* shuffled cards in order (lines 66-82).                                  *)
(***************************************************************************)
EXTENDS Integers, Sequences, FiniteSets, TLC

(* ---- program constants (src/aalto_meg.py) ---- *)
LEFT_BUTTON_LINE == 25
RIGHT_BUTTON_LINE == 26
RESPONSE_PAD_CHANNEL1_LINE == 17
MinCode == 1
MaxCode == 127
\* nidaqmx's WAIT_INFINITELY; also stands for the caller's timeout=None
WAIT_INFINITELY == -1
\* task.read(timeout=0.2), in ticks of 100 ms
SilentWindow == 2
\* DaqReadError.error_code of a read that timed out, and some other code
TimeoutCode == -200284
OtherCode == -200279
\* magic_trick.py line 67
min_distance == 2

(* ---- bounds of the model ---- *)
\* response-pad channels modelled: 1..NChan (the device has 8)
NChan == 3
\* largest finite timeout a caller passes, in ticks
MaxT == 2
\* most line changes the environment makes during one call
MaxEdges == 2
\* the loop iteration counter (history) saturates here
MaxIter == 3
\* different cards in the deck: 0..NCardKinds-1 (magic_trick.py has 9)
NCardKinds == 3
\* copies of each card in the deck (magic_trick.py asks the user, 30 by default)
n_repetitions == 2

VARIABLES
    fake,            \* self.fake
    port,            \* value on the parallel port's data lines
    writes,          \* setData calls made by the current call, in order
    lines,           \* physical state of the digital input lines (bit mask)
    edgesLeft,       \* line changes the environment still makes in this call
    op,              \* the API call in progress
    pc,              \* position inside the call
    arg,             \* send_trigger_code's argument
    T0,              \* the timeout the caller passed
    timeout,         \* the local variable `timeout`
    clock,           \* clock.getTime(): ticks since core.Clock() was created
    blocked,         \* ticks this call has spent blocked in task.read
    readTimeout,     \* timeout handed to the task.read in progress
    iter,            \* loop iterations started in this call (saturating)
    enable_channels, \* the caller's list of channels
    data,            \* the local variable `button` / `data`: last sample read
    checked,         \* last sample the grip loop tested (history)
    lastRead,        \* how the last task.read of this call ended (history)
    silentTicks,     \* ticks the last silent-window read blocked (history)
    initialCorrect,  \* result of the initial point read of the grip wait
    correct,         \* the local variable `correct`
    openTasks,       \* nidaqmx tasks currently open
    ret,             \* kind of value returned
    retChannel,      \* the channel returned by wait_for_response, else 0
    raised,          \* exception that left the call, "" when none
    prevCheck,       \* what the caller keeps of its last grip check (history)
    cards,           \* magic_trick.py: the list `cards`
    idx,             \* magic_trick.py: the for loop's index i
    swaps_performed, \* magic_trick.py: the flag `swaps_performed`
    scriptPc         \* magic_trick.py: position in the card-ordering loop

vars == <<fake, port, writes, lines, edgesLeft, op, pc, arg, T0, timeout, clock,
          blocked, readTimeout, iter, enable_channels, data, checked, lastRead,
          silentTicks, initialCorrect, correct, openTasks, ret, retChannel, raised,
          prevCheck, cards, idx, swaps_performed, scriptPc>>

(* ---- bit arithmetic ---- *)
Pow2(n) == 2 ^ n

\* x & m for a mask m with a single bit set
BitAnd(x, m) == IF (x \div m) % 2 = 1 THEN m ELSE 0

Max(a, b) == IF a > b THEN a ELSE b

(* ---- the input lines ---- *)
Channels == 1..NChan

ChannelLine(channel) == RESPONSE_PAD_CHANNEL1_LINE + channel - 1

ChannelLines == {ChannelLine(c) : c \in Channels}

ButtonLines == {LEFT_BUTTON_LINE, RIGHT_BUTTON_LINE}

AllLines == ChannelLines \cup ButtonLines

IsHigh(x, l) == BitAnd(x, Pow2(l)) # 0

Flip(x, l) == IF IsHigh(x, l) THEN x - Pow2(l) ELSE x + Pow2(l)


\* the part of the port a task on lines 17..24 reads: the bits below line 25
ChannelSample(x) == x % Pow2(LEFT_BUTTON_LINE)

\* the part of the port a task on lines 25..26 reads
ButtonSample(x) == x - (x % Pow2(LEFT_BUTTON_LINE))

TaskSample(o, x) == IF o = "button" THEN ButtonSample(x) ELSE ChannelSample(x)

\* cfg_change_detection_timing of each wait: would the task see line l of x change?
\*   button:   rising edges on lines 25..26
\*   response: rising edges on channels 3..8, falling edges on channels 1..2
\*   grip:     both edges on channels 1..8
Detected(o, x, l) ==
    CASE o = "button"   -> l \in ButtonLines /\ ~IsHigh(x, l)
      [] o = "response" -> /\ l \in ChannelLines
                           /\ IF l >= ChannelLine(3) THEN ~IsHigh(x, l) ELSE IsHigh(x, l)
      [] o = "grip"     -> l \in ChannelLines
      [] OTHER          -> FALSE

(* ---- the callers' inputs ---- *)
Timeouts == {WAIT_INFINITELY} \cup (0..MaxT)

\* the finite timeouts among them
FiniteTimeouts == 0..MaxT

CodeInputs == (MinCode - 2)..(MaxCode + 2)

\* lists of distinct channels, in any order; the last stands for "all"
EnableLists ==
    {s \in UNION {[1..n -> Channels] : n \in 0..NChan} :
        \A i, j \in DOMAIN s : i # j => s[i] # s[j]}

AllChannels == [i \in 1..NChan |-> i]

\* every set of channels once, as an ascending list
AscendingLists == {s \in EnableLists : \A i, j \in DOMAIN s : i < j => s[i] < s[j]}

(* ---- decoding ---- *)
\* the range test off by one at its lower end: code 0 passes
ValidCode_AcceptsZero(code) == 0 <= code /\ code <= MaxCode

ValidCode(code) == MinCode <= code /\ code <= MaxCode

\* the two tests in the other order: Right wins when both bits are set
ButtonDecode_RightFirst(button) ==
    IF BitAnd(button, Pow2(RIGHT_BUTTON_LINE)) # 0 THEN "right"
    ELSE IF BitAnd(button, Pow2(LEFT_BUTTON_LINE)) # 0 THEN "left"
    ELSE ""

\* lines 126-129: "left", "right" or "" (no return, the loop goes on)
ButtonDecode(button) ==
    IF BitAnd(button, Pow2(LEFT_BUTTON_LINE)) # 0 THEN "left"
    ELSE IF BitAnd(button, Pow2(RIGHT_BUTTON_LINE)) # 0 THEN "right"
    ELSE ""

\* does `channel` test as lifted in sample x (lines 211-215, 278-282, 359-363)
Lifted(x, channel) ==
    LET mask == Pow2(RESPONSE_PAD_CHANNEL1_LINE + channel - 1) IN
    \/ (channel = 1 \/ channel = 2) /\ BitAnd(x, mask) = 0
    \/ channel >= 3 /\ BitAnd(x, mask) # 0

\* the for loop runs over all channels of the device, not over the caller's list
ResponseDecode_AllChannels(button, chans) ==
    IF \E c \in Channels : Lifted(button, c)
    THEN CHOOSE c \in Channels :
            Lifted(button, c) /\ \A k \in Channels : Lifted(button, k) => c <= k
    ELSE 0

\* lines 210-215: the first channel of the list, in the list's order, that tests
\* as lifted; 0 when the for loop ends without a return
RECURSIVE ResponseDecode(_, _)
ResponseDecode(button, chans) ==
    IF chans = << >> THEN 0
    ELSE IF Lifted(button, Head(chans)) THEN Head(chans)
    ELSE ResponseDecode(button, Tail(chans))

\* lines 277-283: False at the first listed channel that tests as lifted
RECURSIVE CheckHeldCorrectly(_, _)
CheckHeldCorrectly(x, chans) ==
    IF chans = << >> THEN TRUE
    ELSE IF Lifted(x, Head(chans)) THEN FALSE
    ELSE CheckHeldCorrectly(x, Tail(chans))

\* the loop's test without the special case of channels 1 and 2: every channel
\* is taken for active high
RECURSIVE LoopGripCorrect_AllActiveHigh(_, _)
LoopGripCorrect_AllActiveHigh(x, chans) ==
    IF chans = << >> THEN TRUE
    ELSE IF BitAnd(x, Pow2(RESPONSE_PAD_CHANNEL1_LINE + Head(chans) - 1)) # 0 THEN FALSE
    ELSE LoopGripCorrect_AllActiveHigh(x, Tail(chans))

\* lines 358-364: the for loop reaches its else branch iff it never breaks
RECURSIVE LoopGripCorrect(_, _)
LoopGripCorrect(x, chans) ==
    IF chans = << >> THEN TRUE
    ELSE IF Lifted(x, Head(chans)) THEN FALSE
    ELSE LoopGripCorrect(x, Tail(chans))

(* ---- timeouts ---- *)
\* the loop test written with >= : a timeout of 0 still enters the loop
MayWait_NonNegative(t) == t = WAIT_INFINITELY \/ t >= 0

\* the loop test lost: `while True` (in the grip wait `while not correct`)
MayWait_Always(t) == TRUE

\* lines 119, 203, 351: timeout is None or timeout > 0
MayWait(t) == t = WAIT_INFINITELY \/ t > 0

\* the timeout is handed on as it is, the elapsed time is not taken off
Remaining_NoCountdown(t, elapsed) == t

\* lines 120-121, 204-205, 352-353
Remaining(t, elapsed) == IF t = WAIT_INFINITELY THEN t ELSE Max(t - elapsed, 0)

\* how long a read handed timeout t may block before an edge or an error ends it.
\* Elapsed time is followed only in calls with a finite timeout: no other call
\* reads its clock.
Durations(t) == IF t = WAIT_INFINITELY THEN {0} ELSE 0..t

\* the DaqReadError codes a read that has blocked d ticks of timeout t may raise
ErrorCodes(t, d) ==
    {OtherCode} \cup (IF t # WAIT_INFINITELY /\ d = t THEN {TimeoutCode} ELSE {})

Advance(t, d) == IF T0 = WAIT_INFINITELY THEN t ELSE t + d

NextIter == IF iter < MaxIter THEN iter + 1 ELSE iter

(* ---- initial state: AaltoMEG.__init__ ---- *)
ObjectInit ==
    /\ fake \in BOOLEAN
    /\ port = 0
    /\ writes = << >>
    /\ lines = 0
    /\ edgesLeft = 0
    /\ op = ""
    /\ pc = "idle"
    /\ arg = 0
    /\ T0 = WAIT_INFINITELY
    /\ timeout = WAIT_INFINITELY
    /\ clock = 0
    /\ blocked = 0
    /\ readTimeout = WAIT_INFINITELY
    /\ iter = 0
    /\ enable_channels = << >>
    /\ data = 0
    /\ checked = 0
    /\ lastRead = ""
    /\ silentTicks = 0
    /\ initialCorrect = FALSE
    /\ correct = FALSE
    /\ openTasks = 0
    /\ ret = ""
    /\ retChannel = 0
    /\ raised = ""

\* the object in use on its own: the card-ordering loop of the script is not
\* running and the caller remembers no earlier result
Init ==
    /\ ObjectInit
    /\ prevCheck = << >>
    /\ cards = << >>
    /\ idx = 0
    /\ swaps_performed = FALSE
    /\ scriptPc = "none"

scriptVars == <<cards, idx, swaps_performed, scriptPc>>
objectVars == <<fake, port, writes, lines, edgesLeft, op, pc, arg, T0, timeout, clock,
                blocked, readTimeout, iter, enable_channels, data, checked, lastRead,
                silentTicks, initialCorrect, correct, openTasks, ret, retChannel, raised>>
outVars == <<port, writes>>
timeVars == <<T0, timeout, clock, blocked, readTimeout, iter>>
readVars == <<data, checked, lastRead, silentTicks>>
gripVars == <<initialCorrect, correct>>
retVars == <<ret, retChannel, raised>>


(* ---- the environment between calls ---- *)
\* a finger or a button moves while no call is in progress
EnvLineChange ==
    /\ pc = "idle"
    /\ \E l \in AllLines : lines' = Flip(lines, l)
    /\ prevCheck' = << >>
    /\ UNCHANGED scriptVars
    /\ UNCHANGED <<fake, edgesLeft, op, pc, arg, enable_channels, openTasks>>
    /\ UNCHANGED <<outVars, timeVars, readVars, gripVars, retVars>>

\* a line changes during a blocking read in a direction the task does not detect
EnvSilentChange ==
    /\ pc \in {"read", "silent"}
    /\ edgesLeft > 0
    /\ \E l \in AllLines : ~Detected(op, lines, l) /\ lines' = Flip(lines, l)
    /\ edgesLeft' = edgesLeft - 1
    /\ UNCHANGED <<prevCheck, scriptVars>>
    /\ UNCHANGED <<fake, op, pc, arg, enable_channels, openTasks>>
    /\ UNCHANGED <<outVars, timeVars, readVars, gripVars, retVars>>

\* the environment goes on changing lines for as long as the call lasts
EnvMoreEdges ==
    /\ pc \in {"read", "silent"}
    /\ edgesLeft < MaxEdges
    /\ \E n \in (edgesLeft + 1)..MaxEdges : edgesLeft' = n
    /\ UNCHANGED <<prevCheck, scriptVars>>
    /\ UNCHANGED <<fake, lines, op, pc, arg, enable_channels, openTasks>>
    /\ UNCHANGED <<outVars, timeVars, readVars, gripVars, retVars>>

(* ---- send_trigger_code ---- *)
\* lines 67-76: validation, then the first setData and the start of the dwell
SendTriggerCode(code) ==
    /\ pc = "idle"
    /\ op' = "trigger"
    /\ arg' = code
    /\ IF ~ValidCode(code)
       THEN /\ raised' = "ValueError"
            /\ pc' = "done"
            /\ UNCHANGED outVars
       ELSE /\ raised' = ""
            /\ pc' = "dwell"
            /\ IF fake
               THEN UNCHANGED outVars
               ELSE port' = code /\ writes' = Append(writes, code)
    /\ UNCHANGED <<prevCheck, scriptVars>>
    /\ UNCHANGED <<fake, lines, edgesLeft, enable_channels, openTasks, ret, retChannel>>
    /\ UNCHANGED <<timeVars, readVars, gripVars>>

\* the dwell ends without the second setData: the port keeps the code
TriggerDwellDone_NoReset ==
    /\ pc = "dwell"
    /\ pc' = "done"
    /\ ret' = "None"
    /\ UNCHANGED <<prevCheck, scriptVars>>
    /\ UNCHANGED <<fake, lines, edgesLeft, op, arg, enable_channels, openTasks,
                   retChannel, raised>>
    /\ UNCHANGED <<outVars, timeVars, readVars, gripVars>>

\* lines 72-73 and 76-77: core.wait(0.003) is over
TriggerDwellDone ==
    /\ pc = "dwell"
    /\ IF fake
       THEN UNCHANGED outVars
       ELSE port' = 0 /\ writes' = Append(writes, 0)
    /\ pc' = "done"
    /\ ret' = "None"
    /\ UNCHANGED <<prevCheck, scriptVars>>
    /\ UNCHANGED <<fake, lines, edgesLeft, op, arg, enable_channels, openTasks,
                   retChannel, raised>>
    /\ UNCHANGED <<timeVars, readVars, gripVars>>

(* ---- shared shape of the three wait loops ---- *)
\* entering `with nidaqmx.Task() as task`, configuring it and creating the clock
OpenEdgeTask(o, T, chans) ==
    /\ op' = o
    /\ enable_channels' = chans
    /\ T0' = T
    /\ timeout' = T
    /\ clock' = 0
    /\ blocked' = 0
    /\ iter' = 0
    /\ pc' = "loop"
    /\ \E n \in 0..MaxEdges : edgesLeft' = n

\* the loop test passed: recompute the timeout and call task.read
StartRead ==
    /\ timeout' = Remaining(timeout, clock)
    /\ readTimeout' = timeout'
    /\ iter' = NextIter
    /\ pc' = "read"
    /\ UNCHANGED <<T0, clock, blocked>>

\* a detected change ends the read in progress after d ticks with a sample
EdgeArrives(d) ==
    /\ edgesLeft > 0
    /\ \E l \in AllLines, bounce \in BOOLEAN :
          /\ Detected(op, lines, l)
          /\ lines' = IF bounce THEN lines ELSE Flip(lines, l)
    /\ edgesLeft' = edgesLeft - 1
    /\ data' = TaskSample(op, lines')
    /\ clock' = Advance(clock, d)
    /\ blocked' = Advance(blocked, d)

\* the read in progress raises DaqReadError after d ticks
ReadRaises(d) ==
    /\ clock' = Advance(clock, d)
    /\ blocked' = Advance(blocked, d)
    /\ UNCHANGED <<lines, edgesLeft, data>>


\* what the device reported (history): a read that timed out, or another error
ErrorKind(e) == IF e = TimeoutCode THEN "timeout" ELSE "error"

\* a handler that never recognises the timeout error and re-raises it
IsTimeout_Never(e) == FALSE

\* lines 131, 217, 373: the handler's test for the timeout error
IsTimeout(e) == e = TimeoutCode

(* ---- wait_for_button_press ---- *)
\* lines 100-118
WaitForButtonPress(T) ==
    /\ pc = "idle"
    /\ IF fake
       THEN /\ op' = "button"
            /\ pc' = "done"
            /\ \E r \in {"left", "right"} : ret' = r
            /\ UNCHANGED <<timeVars, edgesLeft, enable_channels, openTasks>>
       ELSE /\ OpenEdgeTask("button", T, << >>)
            /\ openTasks' = openTasks + 1
            /\ UNCHANGED <<ret, readTimeout>>
    /\ UNCHANGED <<prevCheck, scriptVars>>
    /\ UNCHANGED <<fake, lines, arg, retChannel, raised>>
    /\ UNCHANGED <<outVars, readVars, gripVars>>

\* lines 119-121 and 136-138
ButtonLoop ==
    /\ op = "button" /\ pc = "loop"
    /\ IF MayWait(timeout)
       THEN StartRead /\ UNCHANGED <<openTasks, ret>>
       ELSE /\ pc' = "done"
            /\ ret' = "None"
            /\ openTasks' = openTasks - 1
            /\ UNCHANGED timeVars
    /\ UNCHANGED <<prevCheck, scriptVars>>
    /\ UNCHANGED <<fake, lines, edgesLeft, op, arg, enable_channels, retChannel, raised>>
    /\ UNCHANGED <<outVars, readVars, gripVars>>

\* lines 123-129: the read returns a sample
ButtonRead ==
    /\ op = "button" /\ pc = "read"
    /\ \E d \in Durations(readTimeout) : EdgeArrives(d)
    /\ lastRead' = "edge"
    /\ LET r == ButtonDecode(data') IN
       IF r # ""
       THEN pc' = "done" /\ ret' = r /\ openTasks' = openTasks - 1
       ELSE pc' = "loop" /\ UNCHANGED <<ret, openTasks>>
    /\ UNCHANGED <<prevCheck, scriptVars>>
    /\ UNCHANGED <<fake, op, arg, enable_channels, retChannel, raised>>
    /\ UNCHANGED <<T0, timeout, readTimeout, iter, checked, silentTicks>>
    /\ UNCHANGED <<outVars, gripVars>>

\* lines 130-134: the read raises DaqReadError
ButtonReadFails ==
    /\ op = "button" /\ pc = "read"
    /\ \E d \in Durations(readTimeout) :
          /\ ReadRaises(d)
          /\ \E e \in ErrorCodes(readTimeout, d) :
                /\ lastRead' = ErrorKind(e)
                /\ IF IsTimeout(e)
                   THEN ret' = "None" /\ UNCHANGED raised
                   ELSE raised' = "DaqReadError" /\ UNCHANGED ret
    /\ pc' = "done"
    /\ openTasks' = openTasks - 1
    /\ UNCHANGED <<prevCheck, scriptVars>>
    /\ UNCHANGED <<fake, op, arg, enable_channels, retChannel>>
    /\ UNCHANGED <<T0, timeout, readTimeout, iter, checked, silentTicks>>
    /\ UNCHANGED <<outVars, gripVars>>

(* ---- wait_for_response ---- *)
\* lines 172-202
WaitForResponse(T, chans) ==
    /\ pc = "idle"
    /\ IF fake
       THEN /\ op' = "response"
            /\ enable_channels' = chans
            /\ pc' = "done"
            /\ IF chans = << >>
               THEN raised' = "IndexError" /\ UNCHANGED <<ret, retChannel>>
               ELSE /\ \E i \in DOMAIN chans : retChannel' = chans[i]
                    /\ ret' = "channel"
                    /\ UNCHANGED raised
            /\ UNCHANGED <<timeVars, edgesLeft, openTasks>>
       ELSE /\ OpenEdgeTask("response", T, chans)
            /\ openTasks' = openTasks + 1
            /\ UNCHANGED <<ret, retChannel, raised, readTimeout>>
    /\ UNCHANGED <<prevCheck, scriptVars>>
    /\ UNCHANGED <<fake, lines, arg>>
    /\ UNCHANGED <<outVars, readVars, gripVars>>

\* lines 203-205 and 222-224
ResponseLoop ==
    /\ op = "response" /\ pc = "loop"
    /\ IF MayWait(timeout)
       THEN StartRead /\ UNCHANGED <<openTasks, ret>>
       ELSE /\ pc' = "done"
            /\ ret' = "None"
            /\ openTasks' = openTasks - 1
            /\ UNCHANGED timeVars
    /\ UNCHANGED <<prevCheck, scriptVars>>
    /\ UNCHANGED <<fake, lines, edgesLeft, op, arg, enable_channels, retChannel, raised>>
    /\ UNCHANGED <<outVars, readVars, gripVars>>

\* lines 207-215: the read returns a sample
ResponseRead ==
    /\ op = "response" /\ pc = "read"
    /\ \E d \in Durations(readTimeout) : EdgeArrives(d)
    /\ lastRead' = "edge"
    /\ LET c == ResponseDecode(data', enable_channels) IN
       IF c # 0
       THEN /\ pc' = "done" /\ ret' = "channel" /\ retChannel' = c
            /\ openTasks' = openTasks - 1
       ELSE pc' = "loop" /\ UNCHANGED <<ret, retChannel, openTasks>>
    /\ UNCHANGED <<prevCheck, scriptVars>>
    /\ UNCHANGED <<fake, op, arg, enable_channels, raised>>
    /\ UNCHANGED <<T0, timeout, readTimeout, iter, checked, silentTicks>>
    /\ UNCHANGED <<outVars, gripVars>>

\* lines 216-220: the read raises DaqReadError
ResponseReadFails ==
    /\ op = "response" /\ pc = "read"
    /\ \E d \in Durations(readTimeout) :
          /\ ReadRaises(d)
          /\ \E e \in ErrorCodes(readTimeout, d) :
                /\ lastRead' = ErrorKind(e)
                /\ IF IsTimeout(e)
                   THEN ret' = "None" /\ UNCHANGED raised
                   ELSE raised' = "DaqReadError" /\ UNCHANGED ret
    /\ pc' = "done"
    /\ openTasks' = openTasks - 1
    /\ UNCHANGED <<prevCheck, scriptVars>>
    /\ UNCHANGED <<fake, op, arg, enable_channels, retChannel>>
    /\ UNCHANGED <<T0, timeout, readTimeout, iter, checked, silentTicks>>
    /\ UNCHANGED <<outVars, gripVars>>


BoolName(b) == IF b THEN "True" ELSE "False"

(* ---- check_response_pad_held_correctly ---- *)
\* the test of self.fake is lost: the random answer of line 260 in every mode
CheckResponsePadHeldCorrectly_AlwaysRandom(chans) ==
    /\ pc = "idle"
    /\ op' = "check"
    /\ enable_channels' = chans
    /\ pc' = "done"
    /\ \E r \in BOOLEAN : ret' = BoolName(r)
    /\ UNCHANGED openTasks
    /\ UNCHANGED <<prevCheck, scriptVars>>
    /\ UNCHANGED <<fake, lines, edgesLeft, arg, retChannel, raised>>
    /\ UNCHANGED <<outVars, timeVars, readVars, gripVars>>

\* lines 254-274
CheckResponsePadHeldCorrectly(chans) ==
    /\ pc = "idle"
    /\ op' = "check"
    /\ enable_channels' = chans
    /\ IF fake
       THEN /\ pc' = "done"
            /\ \E r \in BOOLEAN : ret' = BoolName(r)
            /\ UNCHANGED openTasks
       ELSE /\ pc' = "chk_read"
            /\ openTasks' = openTasks + 1
            /\ UNCHANGED ret
    /\ UNCHANGED <<prevCheck, scriptVars>>
    /\ UNCHANGED <<fake, lines, edgesLeft, arg, retChannel, raised>>
    /\ UNCHANGED <<outVars, timeVars, readVars, gripVars>>

\* lines 275-283: the point read and its decoding
CheckRead ==
    /\ op = "check" /\ pc = "chk_read"
    /\ data' = ChannelSample(lines)
    /\ ret' = BoolName(CheckHeldCorrectly(data', enable_channels))
    /\ pc' = "done"
    /\ openTasks' = openTasks - 1
    /\ UNCHANGED <<prevCheck, scriptVars>>
    /\ UNCHANGED <<fake, lines, edgesLeft, op, arg, enable_channels, retChannel, raised>>
    /\ UNCHANGED <<checked, lastRead, silentTicks>>
    /\ UNCHANGED <<outVars, timeVars, gripVars>>

\* line 275 raises: no handler, the error leaves the call (also inside the grip wait)
CheckReadFails ==
    /\ op \in {"check", "grip"} /\ pc = "chk_read"
    /\ raised' = "DaqReadError"
    /\ lastRead' = "error"
    /\ pc' = "done"
    /\ openTasks' = openTasks - 1
    /\ UNCHANGED <<prevCheck, scriptVars>>
    /\ UNCHANGED <<fake, lines, edgesLeft, op, arg, enable_channels, ret, retChannel>>
    /\ UNCHANGED <<data, checked, silentTicks>>
    /\ UNCHANGED <<outVars, timeVars, gripVars>>

(* ---- wait_until_response_pad_held_correctly ---- *)
\* line 321 up to the task of the initial check (lines 254-274); in fake mode the
\* whole call: lines 257-260, then 323 or 328-331
WaitUntilResponsePadHeldCorrectly(T, chans) ==
    /\ pc = "idle"
    /\ op' = "grip"
    /\ enable_channels' = chans
    /\ T0' = T
    /\ timeout' = T
    /\ IF fake
       THEN /\ pc' = "done"
            /\ \E r \in BOOLEAN :
                  /\ initialCorrect' = r
                  /\ ret' = IF r THEN "True" ELSE "True"
            /\ UNCHANGED openTasks
       ELSE /\ pc' = "chk_read"
            /\ openTasks' = openTasks + 1
            /\ UNCHANGED <<ret, initialCorrect>>
    /\ UNCHANGED <<prevCheck, scriptVars>>
    /\ UNCHANGED <<fake, lines, edgesLeft, arg, retChannel, raised>>
    /\ UNCHANGED <<clock, blocked, readTimeout, iter, correct>>
    /\ UNCHANGED <<outVars, readVars>>

\* the result of the initial check is ignored: the edge task is opened anyway
GripInitialRead_NoShortcut ==
    /\ op = "grip" /\ pc = "chk_read"
    /\ data' = ChannelSample(lines)
    /\ initialCorrect' = CheckHeldCorrectly(data', enable_channels)
    /\ openTasks' = openTasks - 1
    /\ pc' = "open"
    /\ UNCHANGED <<prevCheck, scriptVars>>
    /\ UNCHANGED <<fake, lines, edgesLeft, op, arg, enable_channels, retChannel, raised>>
    /\ UNCHANGED <<checked, lastRead, silentTicks, correct, ret>>
    /\ UNCHANGED <<outVars, timeVars>>

\* lines 275-283 and 321-323: the initial point read
GripInitialRead ==
    /\ op = "grip" /\ pc = "chk_read"
    /\ data' = ChannelSample(lines)
    /\ initialCorrect' = CheckHeldCorrectly(data', enable_channels)
    /\ openTasks' = openTasks - 1
    /\ IF initialCorrect'
       THEN pc' = "done" /\ ret' = "True"
       ELSE pc' = "open" /\ UNCHANGED ret
    /\ UNCHANGED <<prevCheck, scriptVars>>
    /\ UNCHANGED <<fake, lines, edgesLeft, op, arg, enable_channels, retChannel, raised>>
    /\ UNCHANGED <<checked, lastRead, silentTicks, correct>>
    /\ UNCHANGED <<outVars, timeVars>>

\* lines 333-350
GripOpenTask ==
    /\ op = "grip" /\ pc = "open"
    /\ OpenEdgeTask("grip", T0, enable_channels)
    /\ openTasks' = openTasks + 1
    /\ correct' = FALSE
    /\ UNCHANGED <<prevCheck, scriptVars>>
    /\ UNCHANGED <<fake, lines, arg, readTimeout, initialCorrect>>
    /\ UNCHANGED <<outVars, readVars, retVars>>

\* lines 351-353 and 377
GripLoop ==
    /\ op = "grip" /\ pc = "loop"
    /\ IF ~correct /\ MayWait(timeout)
       THEN StartRead /\ UNCHANGED <<openTasks, ret>>
       ELSE /\ pc' = "done"
            /\ ret' = BoolName(correct)
            /\ openTasks' = openTasks - 1
            /\ UNCHANGED timeVars
    /\ UNCHANGED <<prevCheck, scriptVars>>
    /\ UNCHANGED <<fake, lines, edgesLeft, op, arg, enable_channels, retChannel, raised>>
    /\ UNCHANGED <<outVars, readVars, gripVars>>

\* lines 355-364: the read returns a sample
GripRead ==
    /\ op = "grip" /\ pc = "read"
    /\ \E d \in Durations(readTimeout) : EdgeArrives(d)
    /\ lastRead' = "edge"
    /\ checked' = data'
    /\ pc' = IF LoopGripCorrect(data', enable_channels) THEN "silent" ELSE "loop"
    /\ UNCHANGED <<prevCheck, scriptVars>>
    /\ UNCHANGED <<fake, op, arg, enable_channels, openTasks>>
    /\ UNCHANGED <<T0, timeout, readTimeout, iter, silentTicks>>
    /\ UNCHANGED <<outVars, gripVars, retVars>>

\* the task is not closed when the error leaves the loop (no `with` block)
GripReadFails_LeaksTask ==
    /\ op = "grip" /\ pc = "read"
    /\ \E d \in Durations(readTimeout) :
          /\ ReadRaises(d)
          /\ \E e \in ErrorCodes(readTimeout, d) :
                /\ lastRead' = ErrorKind(e)
                /\ IF IsTimeout(e)
                   THEN ret' = "False" /\ UNCHANGED raised
                   ELSE raised' = "DaqReadError" /\ UNCHANGED ret
    /\ pc' = "done"
    /\ UNCHANGED <<prevCheck, scriptVars>>
    /\ UNCHANGED <<fake, op, arg, enable_channels, retChannel, openTasks>>
    /\ UNCHANGED <<T0, timeout, readTimeout, iter, checked, silentTicks>>
    /\ UNCHANGED <<outVars, gripVars>>

\* lines 372-376: the read raises DaqReadError
GripReadFails ==
    /\ op = "grip" /\ pc = "read"
    /\ \E d \in Durations(readTimeout) :
          /\ ReadRaises(d)
          /\ \E e \in ErrorCodes(readTimeout, d) :
                /\ lastRead' = ErrorKind(e)
                /\ IF IsTimeout(e)
                   THEN ret' = "False" /\ UNCHANGED raised
                   ELSE raised' = "DaqReadError" /\ UNCHANGED ret
    /\ pc' = "done"
    /\ openTasks' = openTasks - 1
    /\ UNCHANGED <<prevCheck, scriptVars>>
    /\ UNCHANGED <<fake, op, arg, enable_channels, retChannel>>
    /\ UNCHANGED <<T0, timeout, readTimeout, iter, checked, silentTicks>>
    /\ UNCHANGED <<outVars, gripVars>>

\* line 368: task.read(timeout=0.2) returns a sample, an edge inside the window
GripSilentRead ==
    /\ op = "grip" /\ pc = "silent"
    /\ \E d \in 0..SilentWindow : EdgeArrives(d) /\ silentTicks' = d
    /\ lastRead' = "silent_edge"
    /\ pc' = "loop"
    /\ UNCHANGED <<prevCheck, scriptVars>>
    /\ UNCHANGED <<fake, op, arg, enable_channels, openTasks, checked>>
    /\ UNCHANGED <<T0, timeout, readTimeout, iter>>
    /\ UNCHANGED <<outVars, gripVars, retVars>>

\* a handler that takes every DaqReadError for the timeout
IsSilentTimeout_Any(e) == TRUE

\* line 370: the inner handler's test for the timeout error
IsSilentTimeout(e) == e = TimeoutCode

\* lines 369-371: task.read(timeout=0.2) raises DaqReadError
GripSilentFails ==
    /\ op = "grip" /\ pc = "silent"
    /\ \E d \in 0..SilentWindow :
          /\ ReadRaises(d)
          /\ silentTicks' = d
          /\ \E e \in ErrorCodes(SilentWindow, d) :
                /\ lastRead' = IF e = TimeoutCode THEN "silent_timeout" ELSE "silent_error"
                /\ IF IsSilentTimeout(e)
                   THEN correct' = TRUE
                   ELSE UNCHANGED correct
    /\ pc' = "loop"
    /\ UNCHANGED <<prevCheck, scriptVars>>
    /\ UNCHANGED <<fake, op, arg, enable_channels, openTasks, checked, initialCorrect>>
    /\ UNCHANGED <<T0, timeout, readTimeout, iter>>
    /\ UNCHANGED <<outVars, retVars>>

(* ---- the call is over: the caller has its result ---- *)
CallOver ==
    /\ pc = "done"
    /\ pc' = "idle"
    /\ op' = ""
    /\ arg' = 0
    /\ writes' = << >>
    /\ edgesLeft' = 0
    /\ T0' = WAIT_INFINITELY
    /\ timeout' = WAIT_INFINITELY
    /\ clock' = 0
    /\ blocked' = 0
    /\ readTimeout' = WAIT_INFINITELY
    /\ iter' = 0
    /\ enable_channels' = << >>
    /\ data' = 0
    /\ checked' = 0
    /\ lastRead' = ""
    /\ silentTicks' = 0
    /\ initialCorrect' = FALSE
    /\ correct' = FALSE
    /\ ret' = ""
    /\ retChannel' = 0
    /\ raised' = ""
    /\ UNCHANGED scriptVars
    /\ UNCHANGED <<fake, port, lines, openTasks>>

Return == CallOver /\ UNCHANGED prevCheck

\* a caller that keeps the list and the result of a grip check that returned,
\* to compare them with its next check of the same lines
CheckReturn ==
    /\ op = "check"
    /\ CallOver
    /\ prevCheck' = IF raised = "" THEN <<enable_channels, ret>> ELSE << >>

Next ==
    \/ EnvLineChange
    \/ EnvSilentChange
    \/ \E code \in CodeInputs : SendTriggerCode(code)
    \/ TriggerDwellDone
    \/ \E T \in Timeouts : WaitForButtonPress(T)
    \/ ButtonLoop
    \/ ButtonRead
    \/ ButtonReadFails
    \/ \E T \in Timeouts, chans \in EnableLists : WaitForResponse(T, chans)
    \/ ResponseLoop
    \/ ResponseRead
    \/ ResponseReadFails
    \/ \E chans \in EnableLists : CheckResponsePadHeldCorrectly(chans)
    \/ CheckRead
    \/ CheckReadFails
    \/ \E T \in Timeouts, chans \in EnableLists : WaitUntilResponsePadHeldCorrectly(T, chans)
    \/ GripInitialRead
    \/ GripOpenTask
    \/ GripLoop
    \/ GripRead
    \/ GripReadFails
    \/ GripSilentRead
    \/ GripSilentFails
    \/ Return

Spec == Init /\ [][Next]_vars

(* ---- the three waits in hardware mode, called with finite timeouts, with ---- *)
(* ---- lines that never come to rest                                      ---- *)
\* The order of enable_channels has no part in how long a call lasts: the
\* lists are taken in ascending order here.
HardwareInit == Init /\ ~fake

\* the steps of a wait call in progress
CallStep ==
    \/ ButtonLoop
    \/ ButtonRead
    \/ ButtonReadFails
    \/ ResponseLoop
    \/ ResponseRead
    \/ ResponseReadFails
    \/ GripInitialRead
    \/ CheckReadFails
    \/ GripOpenTask
    \/ GripLoop
    \/ GripRead
    \/ GripReadFails
    \/ GripSilentRead
    \/ GripSilentFails

NextWait ==
    \/ EnvLineChange
    \/ EnvSilentChange
    \/ EnvMoreEdges
    \/ \E T \in FiniteTimeouts : WaitForButtonPress(T)
    \/ \E T \in FiniteTimeouts, chans \in AscendingLists : WaitForResponse(T, chans)
    \/ \E T \in FiniteTimeouts, chans \in AscendingLists :
          WaitUntilResponsePadHeldCorrectly(T, chans)
    \/ CallStep
    \/ Return

\* The code of a call in progress runs on, and a read ends at its timeout at
\* the latest (weak fairness of the call's steps).  Time does not stand still:
\* a call that again and again is at a read that can take time does not see
\* every one of them end in no time (strong fairness of the steps on which
\* the clock advances).
WaitFairness ==
    /\ WF_vars(CallStep)
    /\ SF_vars(CallStep /\ clock' > clock)

SpecWait == HardwareInit /\ [][NextWait]_vars /\ WaitFairness

(* ---- magic_trick.py: the order in which the cards are shown ---- *)
\* Python's list index i is position i + 1 of the sequence `cards`.
CardKinds == 0..(NCardKinds - 1)

DeckSize == NCardKinds * n_repetitions

\* lines 66 and 73: the deck in every order random.shuffle can leave it in
ShuffledDecks ==
    {c \in [1..DeckSize -> CardKinds] :
        \A k \in CardKinds : Cardinality({p \in 1..DeckSize : c[p] = k}) = n_repetitions}

\* line 78: card in cards[max(0, i - min_distance) : i]
Offending(c, i, card) ==
    \E k \in Max(0, i - min_distance)..(i - 1) : c[k + 1] = card

\* line 81: cards[i], cards[j] = cards[j], cards[i]
SwapCards(c, i, j) == [c EXCEPT ![i + 1] = c[j + 1], ![j + 1] = c[i + 1]]

\* lines 79-82: the inner for loop from index j on, with `card` as the outer
\* loop bound it; there is no break, so it swaps at every j whose card differs
RECURSIVE InnerLoop(_, _, _, _, _)
InnerLoop(c, i, card, j, swapped) ==
    IF j >= Len(c) - 1 THEN [cards |-> c, swaps_performed |-> swapped]
    ELSE IF c[j + 1] # card
         THEN InnerLoop(SwapCards(c, i, j), i, card, j + 1, TRUE)
         ELSE InnerLoop(c, i, card, j + 1, swapped)

\* lines 66-74
InitCards ==
    /\ ObjectInit
    /\ prevCheck = << >>
    /\ cards \in ShuffledDecks
    /\ idx = 0
    /\ swaps_performed = TRUE
    /\ scriptPc = "while"

\* lines 75-76: the while test, and the end of the loop
WhileTest ==
    /\ scriptPc = "while"
    /\ IF swaps_performed
       THEN /\ swaps_performed' = FALSE
            /\ idx' = 0
            /\ scriptPc' = "for"
       ELSE /\ scriptPc' = "done"
            /\ UNCHANGED <<swaps_performed, idx>>
    /\ UNCHANGED <<cards, prevCheck, objectVars>>

\* lines 77-82: one iteration of `for i, card in enumerate(cards)`, or its end
ForStep ==
    /\ scriptPc = "for"
    /\ IF idx < Len(cards)
       THEN /\ LET card == cards[idx + 1] IN
               IF Offending(cards, idx, card)
               THEN LET r == InnerLoop(cards, idx, card, idx + 1, swaps_performed) IN
                    /\ cards' = r.cards
                    /\ swaps_performed' = r.swaps_performed
               ELSE UNCHANGED <<cards, swaps_performed>>
            /\ idx' = idx + 1
            /\ UNCHANGED scriptPc
       ELSE /\ scriptPc' = "while"
            /\ UNCHANGED <<cards, swaps_performed, idx>>
    /\ UNCHANGED <<prevCheck, objectVars>>

NextCards ==
    \/ WhileTest
    \/ ForStep

SpecCards == InitCards /\ [][NextCards]_vars

\* The script is one thread of straight-line code: while the loop has a next
\* step, that step is taken.
SpecCardsRun == InitCards /\ [][NextCards]_vars /\ WF_vars(NextCards)

(* ---- a caller that checks the grip again and again ---- *)
NextCheck ==
    \/ EnvLineChange
    \/ \E chans \in EnableLists : CheckResponsePadHeldCorrectly(chans)
    \/ CheckRead
    \/ CheckReadFails
    \/ CheckReturn

SpecCheck == Init /\ [][NextCheck]_vars

TypeOK ==
    /\ fake \in BOOLEAN
    /\ port \in 0..MaxCode
    /\ pc \in {"idle", "dwell", "loop", "read", "silent", "chk_read", "open", "done"}
    /\ op \in {"", "trigger", "button", "response", "check", "grip"}
    /\ openTasks \in 0..1
    /\ timeout \in Timeouts


(***************************************************************************)
(* The claims                                                              *)
(***************************************************************************)

\* C1: in hardware mode, send_trigger_code(code) with code in 1..127 writes the
\* port exactly twice: first code (the port holds it during the dwell), then 0,
\* so the port is back at 0 when the call returns.
C1_TriggerPulse ==
    (op = "trigger" /\ ~fake /\ arg >= 1 /\ arg <= 127) =>
        /\ pc \in {"dwell", "done"}
        /\ pc = "dwell" => writes = <<arg>> /\ port = arg
        /\ pc = "done" => writes = <<arg, 0>> /\ port = 0 /\ raised = ""

C1_Witness ==
    op = "trigger" /\ ~fake /\ pc = "done" /\ arg = 127 /\ writes = <<127, 0>> /\ port = 0

\* C2: send_trigger_code(code) with code outside 1..127 raises the invalid-argument
\* error and writes nothing to the port, in hardware and in simulation mode; the
\* port keeps its idle value.
C2_InvalidCodeNoWrite ==
    (op = "trigger" /\ (arg < 1 \/ arg > 127)) =>
        /\ pc = "done"
        /\ raised = "ValueError"
        /\ writes = << >>
        /\ port = 0

C2_Witness ==
    op = "trigger" /\ ~fake /\ pc = "done" /\ arg = 128 /\ raised = "ValueError"


\* C3: in every wait operation, a device read error other than the timeout,
\* raised by any read of the call (the 200 ms silent-window read included), leaves
\* the call as an exception: right after such a read the call is over and
\* DaqReadError is raised.
C3_ErrorsPropagate ==
    (op \in {"button", "response", "grip"} /\ lastRead \in {"error", "silent_error"}) =>
        pc = "done" /\ raised = "DaqReadError"

\* C4: in a grip wait with finite timeout T whose initial grip is incorrect, the
\* time blocked in reads (edge waits and silent windows together) never exceeds
\* T, and a call that ends after T has expired returns False.
C4_GripWaitBounded ==
    (op = "grip" /\ ~fake /\ T0 # WAIT_INFINITELY /\ pc \in {"loop", "read", "silent", "done"}
        /\ ~initialCorrect) =>
        /\ blocked <= T0
        /\ (pc = "done" /\ raised = "" /\ clock > T0) => ret = "False"

\* C5: in hardware mode the grip wait returns True only if the initial point read
\* found the grip correct, or the last sample the loop tested was correct for
\* every enabled channel and the silent-window read after it, the last read of
\* the call, timed out after the full window; a read ended by an edge inside the
\* window is never the last read before True.
C5_TrueOnlyAfterQuietWindow ==
    (op = "grip" /\ ~fake /\ pc = "done" /\ ret = "True") =>
        \/ initialCorrect /\ lastRead = ""
        \/ /\ ~initialCorrect
           /\ \A i \in DOMAIN enable_channels : ~Lifted(checked, enable_channels[i])
           /\ lastRead = "silent_timeout"
           /\ silentTicks = SilentWindow

C5_Witness ==
    /\ op = "grip" /\ ~fake /\ pc = "done" /\ ret = "True"
    /\ ~initialCorrect /\ lastRead = "silent_timeout" /\ Len(enable_channels) = NChan

\* C6: with timeout=None, once the grip is correct for all enabled channels and
\* no further edge will come, the grip wait returns True; so, no device error
\* having been met, the call is never blocked in its infinite edge wait while the
\* lines show a correct grip and the environment makes no more changes.
C6_StableGripReturns ==
    ~ /\ op = "grip" /\ pc = "read"
      /\ readTimeout = WAIT_INFINITELY
      /\ edgesLeft = 0
      /\ lastRead \in {"edge", "silent_edge"}
      /\ CheckHeldCorrectly(ChannelSample(lines), enable_channels)


\* C7: in wait_for_button_press and wait_for_response with finite timeout T, the
\* timeout handed to a read is never more than what is left of T, the second
\* read (after a first return at t1) is handed exactly T - t1, and the time
\* blocked in reads over the whole call never exceeds T.
C7_CountdownNoInflation ==
    (op \in {"button", "response"} /\ ~fake /\ T0 # WAIT_INFINITELY) =>
        /\ blocked <= T0
        /\ pc = "read" => readTimeout <= T0 - clock
        /\ (pc = "read" /\ iter = 2) => readTimeout = T0 - clock

C7_Witness ==
    /\ op = "button" /\ ~fake /\ pc = "read" /\ iter = 2
    /\ T0 = 2 /\ clock = 1 /\ readTimeout = 1 /\ ButtonDecode(data) = ""

\* C8: whatever the order of enable_channels, when more than one enabled channel
\* tests as lifted in the sample, wait_for_response returns the lowest-numbered
\* of them.
C8_LowestChannelWins ==
    (op = "response" /\ ~fake /\ pc = "done" /\ ret = "channel") =>
        \A i \in DOMAIN enable_channels :
            Lifted(data, enable_channels[i]) => retChannel <= enable_channels[i]

\* C9: in hardware mode wait_for_response returns None or a member of
\* enable_channels that tests as lifted in the sample; after a sample in which no
\* enabled channel tests as lifted the call goes on waiting: it gives no response,
\* and ends only when the loop finds no time left.
C9_OnlyEnabledChannels ==
    (op = "response" /\ ~fake) =>
        /\ (pc = "done" /\ raised = "") => ret \in {"None", "channel"}
        /\ ret = "channel" =>
              /\ \E i \in DOMAIN enable_channels : enable_channels[i] = retChannel
              /\ Lifted(data, retChannel)
              /\ lastRead = "edge"
        /\ (lastRead = "edge" /\ \A i \in DOMAIN enable_channels :
                                    ~Lifted(data, enable_channels[i])) =>
              \/ pc \in {"loop", "read"}
              \/ pc = "done" /\ ret = "None" /\ timeout = 0

C9_Witness ==
    /\ op = "response" /\ ~fake /\ pc = "read" /\ lastRead = "edge"
    /\ enable_channels = <<3>> /\ ~Lifted(data, 3) /\ Lifted(data, 1)

\* C10: in hardware mode wait_for_button_press returns "left" for every sample
\* with the Left bit set, also when the Right bit is set too, "right" exactly for
\* the samples with the Right bit set and the Left bit clear, and after a sample
\* with neither bit set it gives no response and goes on waiting.
C10_LeftWinsTie ==
    (op = "button" /\ ~fake /\ lastRead = "edge") =>
        LET left == (data \div 2 ^ 25) % 2 = 1
            right == (data \div 2 ^ 26) % 2 = 1
        IN  /\ left => pc = "done" /\ ret = "left"
            /\ (right /\ ~left) => pc = "done" /\ ret = "right"
            /\ ret = "right" => right /\ ~left
            /\ (~left /\ ~right) =>
                  \/ pc \in {"loop", "read"}
                  \/ pc = "done" /\ ret = "None" /\ timeout = 0

C10_Witness ==
    /\ op = "button" /\ ~fake /\ pc = "done" /\ ret = "left"
    /\ IsHigh(data, LEFT_BUTTON_LINE) /\ IsHigh(data, RIGHT_BUTTON_LINE)

\* C11: in hardware mode, when a read of the outer wait loop reports the device
\* timeout, the call ends at once without raising: wait_for_button_press and
\* wait_for_response return None, wait_until_response_pad_held_correctly
\* returns False; the loop starts no further read.
C11_TimeoutIsReturnValue ==
    (~fake /\ lastRead = "timeout") =>
        /\ pc = "done"
        /\ raised = ""
        /\ op \in {"button", "response"} => ret = "None"
        /\ op = "grip" => ret = "False"
        /\ op \in {"button", "response", "grip"}

C11_Witness ==
    /\ ~fake /\ op = "grip" /\ lastRead = "timeout" /\ pc = "done"
    /\ ret = "False" /\ raised = "" /\ iter = 2

\* C12: in hardware mode wait_for_button_press(timeout=0) never reads from the
\* device: the loop test fails at once and the call returns None with no read
\* started, no time blocked and no edge taken.
C12_ZeroTimeoutNoRead ==
    (op = "button" /\ ~fake /\ T0 = 0) =>
        /\ pc \in {"loop", "done"}
        /\ iter = 0 /\ lastRead = "" /\ blocked = 0 /\ clock = 0
        /\ pc = "done" => ret = "None" /\ raised = ""

C12_Witness ==
    op = "button" /\ ~fake /\ T0 = 0 /\ pc = "done" /\ ret = "None" /\ edgesLeft = 0

\* C13: when the initial point read of wait_until_response_pad_held_correctly
\* finds the grip correct, the call is over with True, whatever the timeout:
\* it never reaches the opening of the edge task, the loop, an edge read or the
\* silent window, and no time has passed.
C13_InitialCorrectReturnsTrue ==
    (op = "grip" /\ initialCorrect) =>
        /\ pc = "done" /\ ret = "True" /\ raised = ""
        /\ iter = 0 /\ lastRead = "" /\ silentTicks = 0
        /\ clock = 0 /\ blocked = 0 /\ openTasks = 0

C13_Witness ==
    /\ op = "grip" /\ ~fake /\ initialCorrect /\ pc = "done" /\ ret = "True"
    /\ T0 = 0 /\ Len(enable_channels) = NChan

\* C14: at most one device task is open at any time; one is open exactly while
\* a call is inside a `with` block (the point read, the wait loop, a blocking
\* read, the silent window); none is open between calls, when a call has ended
\* (by return or by a raised error), or between the initial check and the
\* opening of the edge task in wait_until_response_pad_held_correctly.
C14_OneTaskClosedOnExit ==
    /\ openTasks \in {0, 1}
    /\ openTasks = 1 <=> pc \in {"chk_read", "loop", "read", "silent"}

C14_Witness ==
    /\ op = "grip" /\ pc = "done" /\ raised = "DaqReadError" /\ lastRead = "error"
    /\ iter = 2 /\ openTasks = 0

\* C16: in fake mode wait_for_button_press returns "left" or "right", and
\* wait_for_response returns a channel in 1..8 that is a member of the
\* enable_channels list the caller passed; neither raises.
C16_FakeResultsInDomain ==
    (fake /\ pc = "done" /\ op \in {"button", "response"}) =>
        /\ raised = ""
        /\ op = "button" => ret \in {"left", "right"}
        /\ op = "response" =>
              /\ ret = "channel"
              /\ retChannel \in 1..8
              /\ \E i \in DOMAIN enable_channels : enable_channels[i] = retChannel

\* C17: in each of the three wait loops with a finite timeout T, every read,
\* the third and later ones included, is handed max(T - elapsed, 0), where
\* elapsed is the time on the clock started once before the loop.
C17_ReadTimeoutIsRemaining ==
    (op \in {"button", "response", "grip"} /\ ~fake /\ pc = "read"
        /\ T0 # WAIT_INFINITELY) =>
        readTimeout = Max(T0 - clock, 0)

\* C19: the three decodings of a sample agree for the list in use: the grip
\* loop of wait_until_response_pad_held_correctly goes on to the silent window
\* exactly when check_response_pad_held_correctly would return True for the
\* sample and wait_for_response would find no listed channel lifted in it; the
\* results of check_response_pad_held_correctly and of wait_for_response agree
\* with the other two decodings in the same way.
C19_DecodersAgree ==
    /\ (op = "grip" /\ ~fake /\ lastRead = "edge") =>
          /\ pc = "silent" <=> CheckHeldCorrectly(checked, enable_channels)
          /\ pc = "silent" <=> ResponseDecode(checked, enable_channels) = 0
    /\ (op = "grip" /\ ~fake /\ pc \in {"open", "loop", "read", "silent"}) =>
          /\ ~initialCorrect
    /\ (op = "grip" /\ ~fake /\ pc = "open") =>
          /\ ~LoopGripCorrect(data, enable_channels)
          /\ ResponseDecode(data, enable_channels) # 0
    /\ (op = "check" /\ ~fake /\ pc = "done" /\ raised = "") =>
          /\ ret = "True" <=> LoopGripCorrect(data, enable_channels)
          /\ ret = "True" <=> ResponseDecode(data, enable_channels) = 0
    /\ (op = "response" /\ ~fake /\ lastRead = "edge") =>
          /\ ret = "channel" <=> ~CheckHeldCorrectly(data, enable_channels)
          /\ ret = "channel" <=> ~LoopGripCorrect(data, enable_channels)

C19_Witness ==
    /\ op = "grip" /\ ~fake /\ pc = "silent" /\ lastRead = "edge"
    /\ Len(enable_channels) = NChan
    /\ CheckHeldCorrectly(checked, enable_channels)

\* C15 as stated: check_response_pad_held_correctly is idempotent in every
\* mode: a call that returns gives the result the caller's previous call gave
\* for the same enable_channels when no input line changed in between, and
\* the call writes nothing to the port and leaves the lines as it read them.
C15_CheckIdempotent ==
    (op = "check" /\ pc = "done" /\ raised = "") =>
        /\ writes = << >> /\ port = 0
        /\ (prevCheck # << >> /\ prevCheck[1] = enable_channels) => ret = prevCheck[2]

\* C15 amended: the same in hardware mode only, where the result is moreover
\* the decoding of the lines as they are; in fake mode every call draws its
\* result at random.
C15_HardwareCheckIdempotent ==
    (op = "check" /\ ~fake /\ pc = "done" /\ raised = "") =>
        /\ writes = << >> /\ port = 0
        /\ data = ChannelSample(lines)
        /\ ret = BoolName(CheckHeldCorrectly(ChannelSample(lines), enable_channels))
        /\ (prevCheck # << >> /\ prevCheck[1] = enable_channels) => ret = prevCheck[2]

C15_Witness ==
    /\ op = "check" /\ ~fake /\ pc = "done" /\ raised = ""
    /\ prevCheck # << >> /\ prevCheck[1] = enable_channels
    /\ Len(enable_channels) = NChan /\ ret = "True" /\ prevCheck[2] = "True"

\* C18: in hardware mode every call of wait_for_button_press, wait_for_response
\* or wait_until_response_pad_held_correctly with a finite timeout comes to an
\* end (returns or raises), whatever the lines do and however long they go on
\* changing.
C18_FiniteWaitEnds ==
    (op \in {"button", "response", "grip"} /\ T0 # WAIT_INFINITELY) ~> (pc = "done")

\* a grip wait that ended after three or more edge reads: more edges than the
\* environment holds ready at one time
C18_Witness ==
    /\ op = "grip" /\ T0 = MaxT /\ pc = "done" /\ iter = MaxIter
    /\ lastRead = "edge" /\ ret = "False"

\* C20: when the card-ordering loop of magic_trick.py has finished, no card
\* equals one of the min_distance (2) cards before it, at any position of the
\* list, the last two included.
C20_NoRepeatWithinDistance ==
    scriptPc = "done" =>
        \A p \in 1..Len(cards), d \in 1..min_distance :
            p - d >= 1 => cards[p] # cards[p - d]

\* C21: the card-ordering loop of magic_trick.py terminates for every order
\* random.shuffle can leave the deck in: the script, running on, comes to the
\* end of the while loop.
C21_SwapLoopTerminates == <>(scriptPc = "done")

====
